---- MODULE Spec2Model ----
(***************************************************************************)
(* Model of broot's src/commands.rs: the Command edit-state machine        *)
(* (raw text, parsed parts, action), the CommandParts decomposer and the   *)
(* Action deriver.                                                         *)
(*                                                                         *)
(* Strings are sequences of one-character strings; "abc" is <<"a","b","c">>.*)
(* Option<T> is a record: None, or Some(v) = [some |-> TRUE, val |-> v].   *)
(***************************************************************************)
EXTENDS Integers, Sequences, FiniteSets, TLC

VARIABLES
    raw,      \* Command.raw: what is visible in the input
    parts,    \* Command.parts: the parsed parts of the visible input
    action,   \* Command.action: what is required, based on the last key
    last,     \* the constructor call or the event most recently applied
    before,   \* history: the Command and the event held before the last call
    typed     \* history: the characters of the Char keys fed since new()

vars == <<raw, parts, action, last, before, typed>>

(***************************************************************************)
(* Bounds of the model.                                                    *)
(***************************************************************************)
MaxLen == 3        \* longest raw text typed or given to Command::from
MaxCoord == 1      \* largest click coordinate
MaxPartLen == 1    \* longest field of a CommandParts given to Action::from

(***************************************************************************)
(* Characters.  Whitespace is the regex class \s, WordChars the class \w,   *)
(* restricted to the characters of the model.                              *)
(***************************************************************************)
Whitespace == {" ", "\t", "\n"}
WordChars == {"a"}
SepChars == Whitespace \cup {":"}
AllChars == {"a", "?", "/", ":", " ", "\t", "\n"}
PatternChars == AllChars \ (Whitespace \cup {"/", ":"})

\* The characters a Char key event carries in the model.
KeyChars == {"a", "?", "/", ":", " ", "\t", "\n"}
\* The characters of the strings given to Command::from.
BatchChars == {"a", "?", "/", ":", " ", "\n"}

None == [some |-> FALSE]
Some(v) == [some |-> TRUE, val |-> v]

RECURSIVE StringsUpTo(_, _)
StringsUpTo(S, n) ==
    IF n = 0 THEN {<<>>}
    ELSE LET shorter == StringsUpTo(S, n - 1)
         IN shorter \cup {Append(s, c) : s \in shorter, c \in S}

Contains(s, c) == \E i \in 1..Len(s) : s[i] = c

(***************************************************************************)
(* Action: the enum of lines 25-43.                                        *)
(***************************************************************************)
MoveSelection(n) == [kind |-> "MoveSelection", delta |-> n]
ScrollPage(n) == [kind |-> "ScrollPage", delta |-> n]
OpenSelection == [kind |-> "OpenSelection"]
AltOpenSelection == [kind |-> "AltOpenSelection"]
VerbEdit(inv) == [kind |-> "VerbEdit", invocation |-> inv]
Verb(inv) == [kind |-> "Verb", invocation |-> inv]
FuzzyPatternEdit(p) == [kind |-> "FuzzyPatternEdit", pattern |-> p]
RegexEdit(p, f) == [kind |-> "RegexEdit", pattern |-> p, flags |-> f]
Back == [kind |-> "Back"]
ActionNext == [kind |-> "Next"]
Refresh == [kind |-> "Refresh"]
Help == [kind |-> "Help"]
Quit == [kind |-> "Quit"]
Click(x, y) == [kind |-> "Click", x |-> x, y |-> y]
DoubleClick(x, y) == [kind |-> "DoubleClick", x |-> x, y |-> y]
Unparsed == [kind |-> "Unparsed"]

(***************************************************************************)
(* VerbInvocation::from lives in crate::verb_invocation; the command code   *)
(* only stores and clones its result, so it is kept as an opaque wrapper of *)
(* the captured text.                                                      *)
(***************************************************************************)
VerbInvocationFrom(text) == [invocation |-> text]

(***************************************************************************)
(* CommandParts (lines 19-23, 45-83).                                      *)
(***************************************************************************)
CommandPartsNew ==
    [pattern |-> None, regex_flags |-> None, verb_invocation |-> None]

\* The first index j >= i of s whose character is not in S (Len(s)+1 if none):
\* the end of a greedy run of a character class.
RECURSIVE RunEnd(_, _, _)
RunEnd(s, i, S) ==
    IF i <= Len(s) /\ s[i] \in S THEN RunEnd(s, i + 1, S) ELSE i

\* RE.captures(raw) for the anchored regex of lines 56-66: an optional
\* leading slash, an optional pattern (one or more characters that are not
\* whitespace, slash or colon), an optional slash followed by word
\* characters, an optional run of whitespace or colons followed by any
\* characters, then the end of the text.
\* Every group is greedy and each class is disjoint from what may follow it,
\* so the leftmost-first match, when there is one, is the greedy scan; giving
\* a group less never turns a failure into a match.  The dot does not match
\* a newline, and the dollar matches only at the end of the text.
RE_captures(text) ==
    LET n == Len(text)
        i1 == IF n >= 1 /\ text[1] = "/" THEN 2 ELSE 1
        i2 == RunEnd(text, i1, PatternChars)
        hasFlags == i2 <= n /\ text[i2] = "/"
        i3 == IF hasFlags THEN RunEnd(text, i2 + 1, WordChars) ELSE i2
        hasVerb == i3 <= n /\ text[i3] \in SepChars
        i4 == IF hasVerb THEN RunEnd(text, i3, SepChars) ELSE i3
        matched == IF hasVerb THEN \A k \in i4..n : text[k] # "\n"
                   ELSE i3 = n + 1
    IN  IF matched
        THEN [matched |-> TRUE,
              slash_before |-> IF i1 = 2 THEN Some(<<"/">>) ELSE None,
              pattern |-> IF i2 > i1 THEN Some(SubSeq(text, i1, i2 - 1))
                          ELSE None,
              regex_flags |-> IF hasFlags THEN Some(SubSeq(text, i2 + 1, i3 - 1))
                              ELSE None,
              verb_invocation |-> IF hasVerb THEN Some(SubSeq(text, i4, n))
                                  ELSE None]
        ELSE [matched |-> FALSE]

CommandPartsFrom_FlagsWithoutPattern(text) ==
    LET c == RE_captures(text)
    IN  IF c.matched
        THEN [pattern |-> c.pattern,
              regex_flags |->
                  IF c.regex_flags.some THEN c.regex_flags
                  ELSE IF c.slash_before.some THEN Some(<<>>)
                  ELSE None,
              verb_invocation |->
                  IF c.verb_invocation.some
                  THEN Some(VerbInvocationFrom(c.verb_invocation.val))
                  ELSE None]
        ELSE CommandPartsNew

CommandPartsFrom_NoSlashBefore(text) ==
    LET c == RE_captures(text)
    IN  IF c.matched
        THEN [pattern |-> c.pattern,
              regex_flags |->
                  IF c.pattern.some /\ c.regex_flags.some THEN c.regex_flags
                  ELSE None,
              verb_invocation |->
                  IF c.verb_invocation.some
                  THEN Some(VerbInvocationFrom(c.verb_invocation.val))
                  ELSE None]
        ELSE CommandPartsNew

\* CommandParts::from, lines 53-82.
CommandPartsFrom(text) ==
    LET c == RE_captures(text)
    IN  IF c.matched
        THEN [pattern |-> c.pattern,
              regex_flags |->
                  IF c.pattern.some
                  THEN IF c.regex_flags.some THEN c.regex_flags
                       ELSE IF c.slash_before.some THEN Some(<<>>)
                       ELSE None
                  ELSE None,
              verb_invocation |->
                  IF c.verb_invocation.some
                  THEN Some(VerbInvocationFrom(c.verb_invocation.val))
                  ELSE None]
        ELSE CommandPartsNew

(***************************************************************************)
(* Action::from, lines 85-106.                                             *)
(***************************************************************************)
ActionFrom_FinishedFirst(cp, finished) ==
    IF finished THEN
        IF cp.verb_invocation.some THEN Verb(cp.verb_invocation.val)
        ELSE OpenSelection
    ELSE IF cp.pattern.some THEN
        IF cp.regex_flags.some
        THEN RegexEdit(cp.pattern.val, cp.regex_flags.val)
        ELSE FuzzyPatternEdit(cp.pattern.val)
    ELSE IF cp.verb_invocation.some THEN VerbEdit(cp.verb_invocation.val)
    ELSE FuzzyPatternEdit(<<>>)

ActionFrom_PatternBeforeFinished(cp, finished) ==
    IF cp.verb_invocation.some THEN
        IF finished THEN Verb(cp.verb_invocation.val)
        ELSE VerbEdit(cp.verb_invocation.val)
    ELSE IF cp.pattern.some THEN
        IF cp.regex_flags.some
        THEN RegexEdit(cp.pattern.val, cp.regex_flags.val)
        ELSE FuzzyPatternEdit(cp.pattern.val)
    ELSE IF finished THEN OpenSelection
    ELSE FuzzyPatternEdit(<<>>)

ActionFrom(cp, finished) ==
    IF cp.verb_invocation.some THEN
        IF finished THEN Verb(cp.verb_invocation.val)
        ELSE VerbEdit(cp.verb_invocation.val)
    ELSE IF finished THEN OpenSelection
    ELSE IF cp.pattern.some THEN
        IF cp.regex_flags.some
        THEN RegexEdit(cp.pattern.val, cp.regex_flags.val)
        ELSE FuzzyPatternEdit(cp.pattern.val)
    ELSE FuzzyPatternEdit(<<>>)

(***************************************************************************)
(* Command constructors, lines 108-130.                                    *)
(***************************************************************************)
CommandNew == [raw |-> <<>>, parts |-> CommandPartsNew, action |-> Unparsed]

CommandFrom_NeverFinished(text) ==
    LET cp == CommandPartsFrom(text)
    IN  [raw |-> text, parts |-> cp, action |-> ActionFrom(cp, FALSE)]

CommandFrom(text) ==
    LET cp == CommandPartsFrom(text)
    IN  [raw |-> text, parts |-> cp,
         action |-> ActionFrom(cp, Contains(text, ":"))]

(***************************************************************************)
(* Events: crossterm's KeyEvent and crate::event::Event.                   *)
(***************************************************************************)
Char(c) == [kind |-> "Char", c |-> c]
Alt(c) == [kind |-> "Alt", c |-> c]
Ctrl(c) == [kind |-> "Ctrl", c |-> c]
F(n) == [kind |-> "F", n |-> n]
Up == [kind |-> "Up"]
Down == [kind |-> "Down"]
Left == [kind |-> "Left"]
PageUp == [kind |-> "PageUp"]
PageDown == [kind |-> "PageDown"]
Esc == [kind |-> "Esc"]
Backspace == [kind |-> "Backspace"]

EventKey(key) == [kind |-> "Key", key |-> key]
EventClick(x, y) == [kind |-> "Click", x |-> x, y |-> y]
EventDoubleClick(x, y) == [kind |-> "DoubleClick", x |-> x, y |-> y]

\* The keys of the match arms of lines 154-174.
ControlKeys ==
    {Alt("\r"), Alt("\n"), Ctrl("q"), Up, Down, F(5),
     PageUp, Ctrl("u"), PageDown, Ctrl("d")}

\* Keys that reach the catch-all arm of line 197.
OtherKeys == {Left, F(1), Ctrl("a"), Alt("q")}

Coords == 0..MaxCoord

(***************************************************************************)
(* Command::add_key, lines 146-199, arm by arm.                            *)
(***************************************************************************)
SetAction(cmd, a) == [cmd EXCEPT !.action = a]

\* Lines 154-174.
ControlKeyAction_SameDirection(key) ==
    CASE key \in {Alt("\r"), Alt("\n")} -> AltOpenSelection
      [] key = Ctrl("q") -> Quit
      [] key = Up -> MoveSelection(1)
      [] key = Down -> MoveSelection(1)
      [] key = F(5) -> Refresh
      [] key \in {PageUp, Ctrl("u")} -> ScrollPage(1)
      [] key \in {PageDown, Ctrl("d")} -> ScrollPage(1)

ControlKeyAction(key) ==
    CASE key \in {Alt("\r"), Alt("\n")} -> AltOpenSelection
      [] key = Ctrl("q") -> Quit
      [] key = Up -> MoveSelection(-1)
      [] key = Down -> MoveSelection(1)
      [] key = F(5) -> Refresh
      [] key \in {PageUp, Ctrl("u")} -> ScrollPage(-1)
      [] key \in {PageDown, Ctrl("d")} -> ScrollPage(1)

\* Lines 151-153.
EnterKey_Unfinished(cmd) == SetAction(cmd, ActionFrom(cmd.parts, FALSE))

EnterKey(cmd) == SetAction(cmd, ActionFrom(cmd.parts, TRUE))

\* The guard of line 175.
HelpGuard_FirstCharOnly(cmd, c) == c = "?" /\ cmd.raw = <<>>

HelpGuard_VerbOnly(cmd, c) == c = "?" /\ cmd.parts.verb_invocation.some

HelpGuard(cmd, c) ==
    c = "?" /\ (cmd.raw = <<>> \/ cmd.parts.verb_invocation.some)

\* Lines 180-184.
PushChar_StaleParts(cmd, c) ==
    [raw |-> Append(cmd.raw, c), parts |-> cmd.parts,
     action |-> ActionFrom(cmd.parts, FALSE)]

PushChar_Finished(cmd, c) ==
    LET text == Append(cmd.raw, c)
        cp == CommandPartsFrom(text)
    IN  [raw |-> text, parts |-> cp, action |-> ActionFrom(cp, TRUE)]

PushChar(cmd, c) ==
    LET text == Append(cmd.raw, c)
        cp == CommandPartsFrom(text)
    IN  [raw |-> text, parts |-> cp, action |-> ActionFrom(cp, FALSE)]

\* Lines 188-196.
BackspaceKey_NoEmptyCheck(cmd) ==
    LET text == SubSeq(cmd.raw, 1, Len(cmd.raw) - 1)
        cp == CommandPartsFrom(text)
    IN  [raw |-> text, parts |-> cp, action |-> ActionFrom(cp, FALSE)]

BackspaceKey_StaleAction(cmd) ==
    IF cmd.raw = <<>> THEN SetAction(cmd, Back)
    ELSE LET text == SubSeq(cmd.raw, 1, Len(cmd.raw) - 1)
         IN  [raw |-> text, parts |-> CommandPartsFrom(text),
              action |-> cmd.action]

BackspaceKey_StaleParts(cmd) ==
    IF cmd.raw = <<>> THEN SetAction(cmd, Back)
    ELSE [raw |-> SubSeq(cmd.raw, 1, Len(cmd.raw) - 1), parts |-> cmd.parts,
          action |-> ActionFrom(cmd.parts, FALSE)]

BackspaceKey(cmd) ==
    IF cmd.raw = <<>> THEN SetAction(cmd, Back)
    ELSE LET text == SubSeq(cmd.raw, 1, Len(cmd.raw) - 1)
             cp == CommandPartsFrom(text)
         IN  [raw |-> text, parts |-> cp, action |-> ActionFrom(cp, FALSE)]

\* Line 197.
OtherKey_Reset(cmd) == SetAction(cmd, Unparsed)

OtherKey(cmd) == cmd

\* The match of lines 147-198; the arms are tried in the order written.
add_key(cmd, key) ==
    IF key = Char("\t") THEN SetAction(cmd, ActionNext)
    ELSE IF key = Char("\n") THEN EnterKey(cmd)
    ELSE IF key \in ControlKeys THEN SetAction(cmd, ControlKeyAction(key))
    ELSE IF key.kind = "Char" /\ HelpGuard(cmd, key.c) THEN SetAction(cmd, Help)
    ELSE IF key.kind = "Char" THEN PushChar(cmd, key.c)
    ELSE IF key = Esc THEN SetAction(cmd, Back)
    ELSE IF key = Backspace THEN BackspaceKey(cmd)
    ELSE OtherKey(cmd)

(***************************************************************************)
(* Command::add_event, lines 132-144.                                      *)
(***************************************************************************)
add_event_SwappedCoords(cmd, event) ==
    CASE event.kind = "Click" -> SetAction(cmd, Click(event.y, event.x))
      [] event.kind = "DoubleClick" ->
             SetAction(cmd, DoubleClick(event.y, event.x))
      [] event.kind = "Key" -> add_key(cmd, event.key)

add_event(cmd, event) ==
    CASE event.kind = "Click" -> SetAction(cmd, Click(event.x, event.y))
      [] event.kind = "DoubleClick" ->
             SetAction(cmd, DoubleClick(event.x, event.y))
      [] event.kind = "Key" -> add_key(cmd, event.key)

(***************************************************************************)
(* The state machine: a Command built by one of the constructors, then fed  *)
(* events one at a time.                                                   *)
(***************************************************************************)
Command == [raw |-> raw, parts |-> parts, action |-> action]

\* The model stops typing at MaxLen characters.
Fits(cmd) == Len(cmd.raw) <= MaxLen

New ==
    /\ raw = CommandNew.raw
    /\ parts = CommandNew.parts
    /\ action = CommandNew.action
    /\ last = [kind |-> "new"]

From ==
    \E text \in StringsUpTo(BatchChars, MaxLen) :
        /\ raw = CommandFrom(text).raw
        /\ parts = CommandFrom(text).parts
        /\ action = CommandFrom(text).action
        /\ last = [kind |-> "from"]

\* The history variables are observers: the code has no such fields.  A
\* specification either leaves them Unrecorded for the whole behaviour or
\* starts them recording; none of raw, parts, action or last depends on them.
Unrecorded == [recorded |-> FALSE]

Init == (New \/ From) /\ before = Unrecorded /\ typed = Unrecorded

\* What `before` holds after a call.  When the call appended a character to
\* raw: the Command and the event of the state the call was made in.  When
\* the call is the backspace that removes that character at once: the same
\* state still, marked erased.  After any other call: nothing.
Held(cmd, event) ==
    IF ~before.recorded THEN Unrecorded
    ELSE IF Len(cmd.raw) = Len(raw) + 1
    THEN [recorded |-> TRUE, erased |-> FALSE,
          held |-> Some([raw |-> raw, parts |-> parts, action |-> action,
                         last |-> last])]
    ELSE IF /\ event = EventKey(Backspace)
            /\ Len(cmd.raw) + 1 = Len(raw)
            /\ before.held.some
            /\ ~before.erased
    THEN [recorded |-> TRUE, erased |-> TRUE, held |-> before.held]
    ELSE [recorded |-> TRUE, erased |-> FALSE, held |-> None]

\* What `typed` holds after a call: one more character while every event
\* since new() has been a Char key, and nothing once another event came or
\* MaxLen characters and one more key have been recorded.
Typed(event) ==
    IF /\ typed.recorded
       /\ event.kind = "Key"
       /\ event.key.kind = "Char"
       /\ Len(typed.text) <= MaxLen
    THEN [recorded |-> TRUE, text |-> Append(typed.text, event.key.c)]
    ELSE Unrecorded

\* self.raw, self.parts and self.action after the call become those of cmd.
Install(cmd, event) ==
    /\ raw' = cmd.raw
    /\ parts' = cmd.parts
    /\ action' = cmd.action
    /\ last' = event
    /\ before' = Held(cmd, event)
    /\ typed' = Typed(event)

KeyChar ==
    \E c \in KeyChars :
        /\ Fits(add_event(Command, EventKey(Char(c))))
        /\ Install(add_event(Command, EventKey(Char(c))), EventKey(Char(c)))

KeyControl ==
    \E key \in ControlKeys :
        Install(add_event(Command, EventKey(key)), EventKey(key))

KeyEsc == Install(add_event(Command, EventKey(Esc)), EventKey(Esc))

KeyBackspace ==
    Install(add_event(Command, EventKey(Backspace)), EventKey(Backspace))

KeyOther ==
    \E key \in OtherKeys :
        Install(add_event(Command, EventKey(key)), EventKey(key))

MouseClick ==
    \E x \in Coords, y \in Coords :
        Install(add_event(Command, EventClick(x, y)), EventClick(x, y))

MouseDoubleClick ==
    \E x \in Coords, y \in Coords :
        Install(add_event(Command, EventDoubleClick(x, y)),
                EventDoubleClick(x, y))

Next ==
    \/ KeyChar
    \/ KeyControl
    \/ KeyEsc
    \/ KeyBackspace
    \/ KeyOther
    \/ MouseClick
    \/ MouseDoubleClick

Spec == Init /\ [][Next]_vars

(***************************************************************************)
(* Action::from as a function of its own: any CommandParts, either value of *)
(* finished.                                                               *)
(***************************************************************************)
DeriveChars == {"a", "?"}

OptionalStrings ==
    {None} \cup {Some(s) : s \in StringsUpTo(DeriveChars, MaxPartLen)}

PartsInputs ==
    {[pattern |-> p, regex_flags |-> f,
      verb_invocation |-> IF v.some THEN Some(VerbInvocationFrom(v.val)) ELSE None] :
        p \in OptionalStrings, f \in OptionalStrings, v \in OptionalStrings}

InitDerive ==
    /\ raw = <<>>
    /\ parts \in PartsInputs
    /\ action = Unparsed
    /\ last = [kind |-> "parts"]
    /\ before = Unrecorded
    /\ typed = Unrecorded

Derive ==
    \E finished \in BOOLEAN :
        /\ action' = ActionFrom(parts, finished)
        /\ last' = [kind |-> "derive", finished |-> finished]
        /\ UNCHANGED <<raw, parts, before, typed>>

SpecDerive == InitDerive /\ [][Derive]_vars

(***************************************************************************)
(* The event loop with the previous Command recorded: every step is one     *)
(* call of add_event; `before` holds the state a character was typed in,    *)
(* through the call that appends it and the backspace call that follows.    *)
(***************************************************************************)
InitRoundTrip ==
    /\ New \/ From
    /\ before = [recorded |-> TRUE, erased |-> FALSE, held |-> None]
    /\ typed = Unrecorded

SpecRoundTrip == InitRoundTrip /\ [][Next]_vars

(***************************************************************************)
(* The event loop on the empty Command with the typed characters recorded:  *)
(* every step is one call of add_event, and `typed` holds the characters of *)
(* the Char keys while no other event has been fed.                         *)
(***************************************************************************)
InitTyping ==
    /\ New
    /\ before = Unrecorded
    /\ typed = [recorded |-> TRUE, text |-> <<>>]

SpecTyping == InitTyping /\ [][Next]_vars

(***************************************************************************)
(* The event loop on the empty Command only.                               *)
(***************************************************************************)
InitNew == New /\ before = Unrecorded /\ typed = Unrecorded

SpecNew == InitNew /\ [][Next]_vars

(***************************************************************************)
(* Properties.                                                             *)
(***************************************************************************)

\* C1: a '?' key received while the raw text is empty, or while the parts
\* have a verb invocation, sets the action to Help and is not appended: raw
\* and parts are what they were before the event.
C1_HelpKey ==
    [][(/\ last' = EventKey(Char("?"))
        /\ (raw = <<>> \/ parts.verb_invocation.some))
       => (action' = Help /\ raw' = raw /\ parts' = parts)]_vars

C1_Witness ==
    /\ last = EventKey(Char("?"))
    /\ action = Help
    /\ parts.verb_invocation.some
    /\ raw # <<>>

\* C2: any plain character other than tab and newline, '?' included when the
\* raw text is non-empty and there is no verb invocation, is appended at the
\* end of raw, and the action becomes the one derived from the parts of the
\* new raw text with finished = false.
C2_PlainCharAppended ==
    [][\A c \in KeyChars \ {"\t", "\n"} :
          (/\ last' = EventKey(Char(c))
           /\ ~(c = "?" /\ (raw = <<>> \/ parts.verb_invocation.some)))
          => (/\ raw' = Append(raw, c)
              /\ action' = ActionFrom(CommandPartsFrom(raw'), FALSE))]_vars

C2_Witness ==
    /\ last = EventKey(Char("?"))
    /\ raw = <<"a", "a", "?">>
    /\ action = FuzzyPatternEdit(<<"a", "a", "?">>)

\* C3: backspace on empty raw text sets the action to Back and leaves raw
\* empty; backspace on non-empty raw text removes exactly the last character
\* and sets the action to the one derived from the new raw text with
\* finished = false.
C3_Backspace ==
    [][last' = EventKey(Backspace)
       => IF raw = <<>>
          THEN raw' = <<>> /\ action' = Back
          ELSE /\ raw' = SubSeq(raw, 1, Len(raw) - 1)
               /\ action' = ActionFrom(CommandPartsFrom(raw'), FALSE)]_vars

C3_Witness ==
    /\ last = EventKey(Backspace)
    /\ raw = <<"a">>
    /\ action = FuzzyPatternEdit(<<"a">>)

\* C4: a newline key leaves raw and parts unchanged and sets the action,
\* whatever it was, to Verb of the current verb invocation when there is
\* one, and to OpenSelection otherwise.
C4_Newline ==
    [][last' = EventKey(Char("\n"))
       => /\ raw' = raw
          /\ parts' = parts
          /\ action' = IF parts.verb_invocation.some
                       THEN Verb(parts.verb_invocation.val)
                       ELSE OpenSelection]_vars

C4_Witness ==
    /\ last = EventKey(Char("\n"))
    /\ parts.pattern.some
    /\ parts.verb_invocation.some
    /\ action = Verb(parts.verb_invocation.val)

\* C5: Action::from follows the first-match-wins order for every
\* CommandParts and both values of finished: a verb invocation gives Verb if
\* finished, else VerbEdit; else finished gives OpenSelection; else a pattern
\* gives RegexEdit(pattern, flags) if flags are present, otherwise
\* FuzzyPatternEdit(pattern); else FuzzyPatternEdit("").
C5_DerivePriority ==
    last.kind = "derive" =>
        LET finished == last.finished
            verb == parts.verb_invocation
            pattern == parts.pattern
            flags == parts.regex_flags
        IN  /\ (verb.some /\ finished) => action = Verb(verb.val)
            /\ (verb.some /\ ~finished) => action = VerbEdit(verb.val)
            /\ (~verb.some /\ finished) => action = OpenSelection
            /\ (~verb.some /\ ~finished /\ pattern.some /\ flags.some)
                   => action = RegexEdit(pattern.val, flags.val)
            /\ (~verb.some /\ ~finished /\ pattern.some /\ ~flags.some)
                   => action = FuzzyPatternEdit(pattern.val)
            /\ (~verb.some /\ ~finished /\ ~pattern.some)
                   => action = FuzzyPatternEdit(<<>>)

C5_Witness ==
    /\ last = [kind |-> "derive", finished |-> FALSE]
    /\ parts.pattern.some
    /\ parts.regex_flags.some
    /\ parts.verb_invocation.some
    /\ action = VerbEdit(parts.verb_invocation.val)

\* C6: the fixed control keys set the action to a value that depends only on
\* the key and leave raw and parts unchanged: tab gives Next, alt-enter
\* AltOpenSelection, ctrl-q Quit, up and down MoveSelection(-1) and
\* MoveSelection(1), F5 Refresh, page-up or ctrl-u ScrollPage(-1), page-down
\* or ctrl-d ScrollPage(1), escape Back.
C6_FixedControlKeys ==
    [][LET key(k) == last' = EventKey(k)
       IN  /\ (key(Char("\t")) => action' = ActionNext)
           /\ (key(Alt("\r")) \/ key(Alt("\n")) => action' = AltOpenSelection)
           /\ (key(Ctrl("q")) => action' = Quit)
           /\ (key(Up) => action' = MoveSelection(-1))
           /\ (key(Down) => action' = MoveSelection(1))
           /\ (key(F(5)) => action' = Refresh)
           /\ (key(PageUp) \/ key(Ctrl("u")) => action' = ScrollPage(-1))
           /\ (key(PageDown) \/ key(Ctrl("d")) => action' = ScrollPage(1))
           /\ (key(Esc) => action' = Back)
           /\ ((\E k \in ControlKeys \cup {Char("\t"), Esc} : key(k))
                  => raw' = raw /\ parts' = parts)]_vars

C6_Witness ==
    /\ last = EventKey(Ctrl("u"))
    /\ action = ScrollPage(-1)
    /\ parts.verb_invocation.some

\* C7: a Click(x, y) or DoubleClick(x, y) event sets the action to Click or
\* DoubleClick with the event's own coordinates and leaves raw and parts
\* untouched.
C7_PointerEvents ==
    [][\A x \in Coords, y \in Coords :
          /\ last' = EventClick(x, y)
                 => action' = Click(x, y) /\ raw' = raw /\ parts' = parts
          /\ last' = EventDoubleClick(x, y)
                 => action' = DoubleClick(x, y) /\ raw' = raw /\ parts' = parts]_vars

C7_Witness ==
    /\ last = EventDoubleClick(1, 0)
    /\ action = DoubleClick(1, 0)
    /\ raw # <<>>
    /\ parts = CommandPartsFrom(raw)

\* C8: a key event that is not one of the recognized keys changes nothing:
\* raw, parts and action are the same before and after the event.
C8_OtherKeysIgnored ==
    [][(\E k \in OtherKeys : last' = EventKey(k))
       => (raw' = raw /\ parts' = parts /\ action' = action)]_vars

C8_Witness ==
    /\ \E k \in OtherKeys : last = EventKey(k)
    /\ action.kind = "VerbEdit"
    /\ raw # <<>>

\* C9 as stated: Command::from derives the action with finished = true
\* whenever the string contains a separator character, whitespace or ':'.
C9_FinishedOnAnySeparator ==
    (last.kind = "from" /\ \E i \in 1..Len(raw) : raw[i] \in SepChars)
        => action = ActionFrom(parts, TRUE)

\* C9 amended: Command::from derives the action with finished = true exactly
\* when the string contains ':'; whitespace alone leaves finished = false.
C9_FinishedOnColon ==
    last.kind = "from" =>
        IF Contains(raw, ":") THEN action = ActionFrom(parts, TRUE)
        ELSE action = ActionFrom(parts, FALSE)

C9_Witness ==
    /\ last.kind = "from"
    /\ raw = <<"a", ":", "a">>
    /\ action = Verb(VerbInvocationFrom(<<"a">>))

\* C10: for every string that contains ':', Command::from yields Verb of the
\* invocation parsed from the text after the first separator run.
C10_ColonAlwaysCommits ==
    (last.kind = "from" /\ Contains(raw, ":")) =>
        LET first == CHOOSE i \in 1..Len(raw) :
                         /\ raw[i] \in SepChars
                         /\ \A j \in 1..(i - 1) : raw[j] \notin SepChars
            rest == SubSeq(raw, RunEnd(raw, first, SepChars), Len(raw))
        IN  action = Verb(VerbInvocationFrom(rest))

\* C11: typing then erasing is a round trip: from a state whose action was
\* produced by a text edit (a character that was appended, or a backspace
\* that removed one), a plain character that is appended followed by a
\* backspace restores the previous raw text and the previous action.  The
\* state checked is the one the backspace call leaves; `before` holds the
\* state in which the character was typed.
C11_TypeEraseRoundTrip ==
    (/\ before.recorded
     /\ before.held.some
     /\ before.erased
     /\ \/ /\ \E d \in KeyChars \ {"\t", "\n"} :
                  before.held.val.last = EventKey(Char(d))
           /\ before.held.val.action # Help
        \/ /\ before.held.val.last = EventKey(Backspace)
           /\ before.held.val.action # Back)
    => /\ raw = before.held.val.raw
       /\ action = before.held.val.action

C11_Witness ==
    /\ last = EventKey(Backspace)
    /\ before.recorded
    /\ before.held.some
    /\ before.erased
    /\ before.held.val.last = EventKey(Char("a"))
    /\ before.held.val.action = FuzzyPatternEdit(<<"a">>)
    /\ raw = <<"a">>
    /\ action = FuzzyPatternEdit(<<"a">>)

\* C12: in every reachable state the parts never have regex_flags present
\* while pattern is absent.
C12_NoFlagsWithoutPattern == parts.regex_flags.some => parts.pattern.some

C12_Witness ==
    /\ raw = <<"/", "/", "a">>
    /\ ~parts.pattern.some
    /\ ~parts.regex_flags.some
    /\ last = EventKey(Char("a"))

\* C13: in every state reachable from either constructor the cached parts are
\* those of the current raw text; the empty constructor starts from empty
\* text, all-absent parts and the action Unparsed, and the parts of the empty
\* text are all absent too.
C13_PartsConsistent ==
    /\ parts = CommandPartsFrom(raw)
    /\ last.kind = "new"
           => /\ raw = <<>>
              /\ action = Unparsed
              /\ parts = [pattern |-> None, regex_flags |-> None,
                          verb_invocation |-> None]

C13_Witness ==
    /\ last = EventKey(Backspace)
    /\ raw = <<"a", "/">>
    /\ parts = [pattern |-> Some(<<"a">>), regex_flags |-> Some(<<>>),
                verb_invocation |-> None]

\* C14: the grammar matches every input text, so the no-match path of
\* CommandParts::from is never taken: the regex matches the raw text of every
\* state.
C14_GrammarMatchesEveryText == RE_captures(raw).matched

\* C15 as stated: for every text, regex_flags is the mode-suffix flags when a
\* '/flags' suffix follows the optional leading '/' and the optional pattern,
\* and otherwise is the empty string whenever the text begins with '/'; the
\* leading '/' is never part of the pattern.
C15_LeadingSlashForcesFlags ==
    LET lead == raw # <<>> /\ raw[1] = "/"
        start == IF lead THEN 2 ELSE 1
        patternEnd == RunEnd(raw, start, PatternChars)
        suffix == patternEnd <= Len(raw) /\ raw[patternEnd] = "/"
        flagsEnd == RunEnd(raw, patternEnd + 1, WordChars)
    IN  /\ suffix => parts.regex_flags
                         = Some(SubSeq(raw, patternEnd + 1, flagsEnd - 1))
        /\ (~suffix /\ lead) => parts.regex_flags = Some(<<>>)
        /\ parts.pattern.some => ~Contains(parts.pattern.val, "/")

\* C15 amended: for every text whose parts have a pattern, regex_flags is the
\* mode-suffix flags when a '/flags' suffix follows the pattern, otherwise the
\* empty string when the text begins with '/', otherwise absent, and the
\* pattern starts after the leading '/'; when the parts have no pattern,
\* regex_flags is absent.
C15_LeadingSlashWithPattern ==
    LET lead == raw # <<>> /\ raw[1] = "/"
        start == IF lead THEN 2 ELSE 1
        patternEnd == RunEnd(raw, start, PatternChars)
        suffix == patternEnd <= Len(raw) /\ raw[patternEnd] = "/"
        flagsEnd == RunEnd(raw, patternEnd + 1, WordChars)
    IN  IF parts.pattern.some
        THEN /\ parts.pattern.val = SubSeq(raw, start, patternEnd - 1)
             /\ ~Contains(parts.pattern.val, "/")
             /\ parts.regex_flags
                    = IF suffix
                      THEN Some(SubSeq(raw, patternEnd + 1, flagsEnd - 1))
                      ELSE IF lead THEN Some(<<>>) ELSE None
        ELSE ~parts.regex_flags.some

C15_Witness ==
    /\ last = EventKey(Char("a"))
    /\ raw = <<"/", "a">>
    /\ parts.pattern = Some(<<"a">>)
    /\ parts.regex_flags = Some(<<>>)
    /\ action = RegexEdit(<<"a">>, <<>>)

\* C16: for any raw text the grammar cannot decompose, the action derived for
\* it, by typing it, by pressing newline on it or by Command::from, is
\* Unparsed or FuzzyPatternEdit("").
C16_MalformedTextIntent ==
    (/\ ~RE_captures(raw).matched
     /\ \/ last.kind = "from"
        \/ \E c \in KeyChars \ {"\t"} : last = EventKey(Char(c))
        \/ last = EventKey(Backspace))
    => action \in {Unparsed, FuzzyPatternEdit(<<>>)}

\* C17 as stated: for every CommandParts with a pattern and no verb
\* invocation, Action::from gives the same pattern-editing action whether
\* finished is true or false.
C17_FinishedIgnoredWithPattern ==
    (/\ last.kind = "derive"
     /\ parts.pattern.some
     /\ ~parts.verb_invocation.some)
    => action = IF parts.regex_flags.some
                THEN RegexEdit(parts.pattern.val, parts.regex_flags.val)
                ELSE FuzzyPatternEdit(parts.pattern.val)

\* C17 amended: the finished rule matters whenever there is no verb
\* invocation, with or without a pattern: for every CommandParts without a
\* verb invocation, Action::from gives OpenSelection when finished is true,
\* and a pattern-editing action only when finished is false.
C17_FinishedOpensSelection ==
    (last.kind = "derive" /\ ~parts.verb_invocation.some)
    => /\ last.finished => action = OpenSelection
       /\ ~last.finished => action.kind \in {"FuzzyPatternEdit", "RegexEdit"}
       /\ action.kind \in {"FuzzyPatternEdit", "RegexEdit"} => ~last.finished

C17_Witness ==
    /\ last = [kind |-> "derive", finished |-> TRUE]
    /\ parts.pattern.some
    /\ ~parts.verb_invocation.some
    /\ action = OpenSelection

\* C18 as stated: for every string s containing ':', Command::from(s) has
\* the same raw text and the same action as the empty Command after each
\* character of s as a Char key, in order, and then one newline key.  The
\* state checked is the one the newline call leaves; `typed` is s followed
\* by the newline.
C18_BatchEqualsTyping ==
    (/\ typed.recorded
     /\ typed.text # <<>>
     /\ typed.text[Len(typed.text)] = "\n"
     /\ Contains(SubSeq(typed.text, 1, Len(typed.text) - 1), ":"))
    => LET s == SubSeq(typed.text, 1, Len(typed.text) - 1)
       IN  /\ raw = CommandFrom(s).raw
           /\ action = CommandFrom(s).action

\* C18 amended: the same, for every string s containing ':' that holds no tab
\* or newline, does not begin with '?' and has no '?' after its first
\* separator character (whitespace or ':').
C18_BatchEqualsTypingOfPlainText ==
    (/\ typed.recorded
     /\ typed.text # <<>>
     /\ typed.text[Len(typed.text)] = "\n"
     /\ LET s == SubSeq(typed.text, 1, Len(typed.text) - 1)
        IN  /\ Contains(s, ":")
            /\ \A i \in 1..Len(s) :
                  /\ s[i] \notin {"\t", "\n"}
                  /\ s[i] = "?"
                         => /\ i > 1
                            /\ \A j \in 1..(i - 1) : s[j] \notin SepChars)
    => LET s == SubSeq(typed.text, 1, Len(typed.text) - 1)
       IN  /\ raw = CommandFrom(s).raw
           /\ action = CommandFrom(s).action

C18_Witness ==
    /\ typed = [recorded |-> TRUE, text |-> <<"a", "?", ":", "\n">>]
    /\ last = EventKey(Char("\n"))
    /\ raw = <<"a", "?", ":">>
    /\ action = Verb(VerbInvocationFrom(<<>>))

\* C19: starting from the empty Command, the action is Verb or OpenSelection
\* only if a newline key has been processed and every event since the most
\* recent newline was an ignored key: the empty Command holds neither, and a
\* step ends with one of them only if it is a newline key, or an ignored key
\* taken when the action already was one of them.
C19_CommitOnlyByEnter ==
    /\ action.kind \notin {"Verb", "OpenSelection"}
    /\ [][action'.kind \in {"Verb", "OpenSelection"}
          => \/ last' = EventKey(Char("\n"))
             \/ /\ \E k \in OtherKeys : last' = EventKey(k)
                /\ action' = action]_vars

C19_Witness ==
    /\ \E k \in OtherKeys : last = EventKey(k)
    /\ action.kind = "Verb"
    /\ parts.pattern.some

\* C20: in every state reachable from the empty Command, the raw text never
\* begins with '?'; whenever the parts have a verb invocation, no '?' occurs
\* from the first separator character on (the separator run and the captured
\* invocation text); and whenever the grammar matches, every '?' lies inside
\* the pattern.
C20_QuestionMarkOnlyInPattern ==
    LET marks == {i \in 1..Len(raw) : raw[i] = "?"}
        seps == {i \in 1..Len(raw) : raw[i] \in SepChars}
        start == IF raw # <<>> /\ raw[1] = "/" THEN 2 ELSE 1
    IN  /\ 1 \notin marks
        /\ parts.verb_invocation.some
               => /\ seps # {}
                  /\ \A i \in marks : \A j \in seps : i < j
                  /\ ~Contains(parts.verb_invocation.val.invocation, "?")
        /\ (marks # {} /\ RE_captures(raw).matched)
               => /\ parts.pattern.some
                  /\ \A i \in marks :
                         /\ i >= start
                         /\ i < start + Len(parts.pattern.val)

C20_Witness ==
    /\ last = EventKey(Char("?"))
    /\ action = Help
    /\ raw = <<"a", "?", ":">>
    /\ parts.pattern = Some(<<"a", "?">>)

====
